---- MODULE Spec2Model ----
(***************************************************************************)
(* A model of the RTNeural layer engine: the Dense layer of                *)
(* RTNeural/dense/dense.h (scalar backend) and the LSTM and GRU layers of  *)
(* RTNeural/lstm/lstm_eigen.tpp (Eigen backend).                           *)
(*                                                                         *)
(* One layer object is under test in every behaviour; its kind and shape   *)
(* are chosen at construction.  Numbers of the element type T are modelled *)
(* by integers.  Arrays and matrices are functions over 0..n-1, so that    *)
(* the index arithmetic of the source is kept as written.                  *)
(***************************************************************************)
EXTENDS Integers, Sequences, FiniteSets, TLC

VARIABLES
    layer,      \* the layer object under test (a Dense, an LSTMLayer or a GRULayer)
    heap,       \* arrays reached through raw pointers (T*): address -> array of cells
    caller,     \* the caller's configuration data: [w, u, b]
    copy,       \* << >>, or <<c>> with c the latest copy-constructed layer
    out,        \* the output buffer the latest forward call wrote
    input,      \* the input buffer of the latest forward call
    ref,        \* << >>, or <<r>>: a freshly constructed layer that replays every call made since the latest reset()
    refOut,     \* the output buffer of the reference layer
    got,        \* the latest getter call: what it was asked for and what it returned
    lastOp,     \* the name of the operation executed last
    nForward,   \* number of forward calls made so far
    calls,      \* the operator= calls in progress on the layer, outermost first
    crashed     \* TRUE once the call stack is exhausted: the program has ended

vars == <<layer, heap, caller, copy, out, input, ref, refOut, got, lastOp, nForward,
         calls, crashed>>

-----------------------------------------------------------------------------
(* Bounds of the model. *)

MaxSize == 2        \* in_size and out_size range over 0..MaxSize
MaxForward == 2     \* forward calls per behaviour
MaxFrames == 2      \* operator= frames the call stack has room for

Sizes == 0..MaxSize
InVals == {-1, 2}           \* first sample of an input buffer
Garbage == {0, 3}           \* what a read of an uninitialized T may yield
PokeVals == {0}             \* what the caller writes into its buffers afterwards

-----------------------------------------------------------------------------
(* Memory cells.  A T that was never written is indeterminate: reading it  *)
(* may yield any value.                                                    *)

Uninit == [val |-> 0, init |-> FALSE]
Cell(v) == [val |-> v, init |-> TRUE]

\* The values a read of cell c can produce.
Read(c) == IF c.init THEN {c.val} ELSE Garbage

\* `new T[n]`: n cells, none initialized.
NewArray(n) == [k \in 0..n-1 |-> Uninit]

\* The arrays of plain values an array of cells can be read as; the cells
\* never written all show the same leftover value.
ReadArray(a) == {[k \in DOMAIN a |-> IF a[k].init THEN a[k].val ELSE g] : g \in Garbage}

-----------------------------------------------------------------------------
(* The caller's data.  Fixture entries are pairwise different in absolute  *)
(* value and alternate in sign, so that a slice taken at a wrong offset is *)
(* visible.                                                                *)

FixVal(seed, n) == IF (n + seed) % 2 = 0 THEN n + 1 ELSE -(n + 1)

Fixture(seed, rows, cols) ==
    [i \in 0..rows-1 |-> [k \in 0..cols-1 |-> FixVal(seed, i * cols + k)]]

FixtureVec(seed, n) == [k \in 0..n-1 |-> FixVal(seed, k)]

\* Input buffers: consecutive samples, so that no two entries are equal.
Inputs(n) == {[k \in 0..n-1 |-> v + k] : v \in InVals}

-----------------------------------------------------------------------------
(* std::inner_product(first, first + n, x, 0): acc = acc + w[k]*x[k], from *)
(* k = 0 upwards.                                                          *)

RECURSIVE inner_product(_, _, _)
inner_product(w, x, n) ==
    IF n = 0 THEN 0 ELSE inner_product(w, x, n - 1) + w[n - 1] * x[n - 1]

\* sigmoid and tanh of the element type, rounded to the nearest integer
\* (halves up): sigmoid(v) >= 1/2 exactly when v >= 0; |tanh(v)| >= 1/2
\* exactly when |v| >= 1 for integer v.
sigmoid(v) == IF v >= 0 THEN 1 ELSE 0

tanh(v) == IF v >= 1 THEN 1 ELSE IF v <= -1 THEN -1 ELSE 0

-----------------------------------------------------------------------------
(* Dense1 and Dense (dense.h).                                             *)

\* Dense1(in_size): weights = new T[in_size] at a fresh address; bias is
\* left without an initializer.
Dense1(addr, in_size) == [in_size |-> in_size, bias |-> Uninit, weights |-> addr]

\* Dense1::forward with the bias left out of the sum.
Dense1_forward_nobias(sub, h, x) ==
    {inner_product(w, x, sub.in_size) : w \in ReadArray(h[sub.weights])}

\* The values Dense1::forward(input) can return.
Dense1_forward(sub, h, x) ==
    {inner_product(w, x, sub.in_size) + b :
        w \in ReadArray(h[sub.weights]), b \in Read(sub.bias)}

\* Dense1::setWeights keeping the caller's pointer instead of copying.
Dense1_setWeights_alias(sub, h, newWeights) ==
    [sub |-> [sub EXCEPT !.weights = newWeights], heap |-> h]

\* Dense1::setWeights(newWeights): copies in_size elements into the
\* layer's own array.  Yields the sub-layer and the heap afterwards.
Dense1_setWeights(sub, h, newWeights) ==
    [sub  |-> sub,
     heap |-> [h EXCEPT ![sub.weights] =
                  [i \in DOMAIN @ |-> IF i < sub.in_size THEN h[newWeights][i] ELSE @[i]]]]

\* Dense1::setBias(b): by value.
Dense1_setBias(sub, b) == [sub EXCEPT !.bias = Cell(b)]

\* Dense(in_size, out_size): out_size sub-layers, each with its own array.
\* `owner` names the allocation site, so that each object has its own
\* addresses.
Dense(owner, in_size, out_size) ==
    [kind |-> "Dense", in_size |-> in_size, out_size |-> out_size,
     subLayers |-> [i \in 0..out_size-1 |-> Dense1(<<owner, i>>, in_size)]]

\* The arrays Dense(owner, in_size, out_size) allocates.
DenseAlloc(owner, in_size, out_size) ==
    [a \in {<<owner, i>> : i \in 0..out_size-1} |-> NewArray(in_size)]

\* Dense(std::initializer_list<size_t> sizes): *sizes.begin() and
\* *(sizes.begin() + 1) are the first and second element of the list.
DenseList(owner, sizes) == Dense(owner, sizes[1], sizes[2])

\* Dense(const Dense& other)
DenseCopy(owner, other) == Dense(owner, other.in_size, other.out_size)

\* The output buffers Dense::forward(input, out) can leave.
Dense_forward(l, h, x) ==
    {o \in [0..l.out_size-1 ->
              UNION {Dense1_forward(l.subLayers[i], h, x) : i \in 0..l.out_size-1}] :
        \A i \in 0..l.out_size-1 : o[i] \in Dense1_forward(l.subLayers[i], h, x)}

\* Dense::setWeights: for i in [0, out_size): subLayers[i]->setWeights(newWeights[i]).
\* st = [layer, heap] before iteration i; the value is st after the loop.
RECURSIVE Dense_setWeights_from(_, _, _)
Dense_setWeights_from(st, newWeights, i) ==
    IF i >= st.layer.out_size THEN st
    ELSE LET r == Dense1_setWeights(st.layer.subLayers[i], st.heap, newWeights[i])
         IN  Dense_setWeights_from(
                 [layer |-> [st.layer EXCEPT !.subLayers[i] = r.sub], heap |-> r.heap],
                 newWeights, i + 1)

\* Dense::setWeights(const std::vector<std::vector<T>>&): row i is passed as
\* newWeights[i].data().
Dense_setWeights(l, h, newWeights) ==
    Dense_setWeights_from([layer |-> l, heap |-> h], newWeights, 0)

\* Dense::setWeights(T**)
Dense_setWeights_ptr(l, h, newWeights) ==
    Dense_setWeights_from([layer |-> l, heap |-> h], newWeights, 0)

\* Dense::setBias(b): for i in [0, out_size): subLayers[i]->setBias(b[i]).
Dense_setBias(l, b) ==
    [l EXCEPT !.subLayers =
        [i \in DOMAIN @ |-> IF i < l.out_size THEN Dense1_setBias(@[i], b[i]) ELSE @[i]]]

\* Dense::getWeight(i, k) and Dense::getBias(i): the cells they read.
Dense_getWeight(l, h, i, k) == h[l.subLayers[i].weights][k]
Dense_getBias(l, i) == l.subLayers[i].bias

-----------------------------------------------------------------------------
(* Eigen matrices and vectors own their coefficients: M[r][c] is M(r, c).  *)

\* Eigen::Matrix::Zero(rows, cols)
Zero(rows, cols) == [r \in 0..rows-1 |-> [c \in 0..cols-1 |-> 0]]

\* Eigen::Matrix::Zero(rows, 1) and Ones(rows, 1), as column vectors v[r].
ZeroVec(rows) == [r \in 0..rows-1 |-> 0]
OnesVec(rows) == [r \in 0..rows-1 |-> 1]

\* M * v for a matrix with rows of length n.
MatVec(M, v, n) == [r \in DOMAIN M |-> inner_product(M[r], v, n)]

-----------------------------------------------------------------------------
(* LSTMLayer (lstm_eigen.tpp).                                             *)

\* LSTMLayer(in_size, out_size)
LSTMLayer(in_size, out_size) ==
    [kind |-> "LSTM", in_size |-> in_size, out_size |-> out_size,
     Wf |-> Zero(out_size, in_size),  Wi |-> Zero(out_size, in_size),
     Wo |-> Zero(out_size, in_size),  Wc |-> Zero(out_size, in_size),
     Uf |-> Zero(out_size, out_size), Ui |-> Zero(out_size, out_size),
     Uo |-> Zero(out_size, out_size), Uc |-> Zero(out_size, out_size),
     bf |-> ZeroVec(out_size), bi |-> ZeroVec(out_size),
     bo |-> ZeroVec(out_size), bc |-> ZeroVec(out_size),
     fVec |-> ZeroVec(out_size), iVec |-> ZeroVec(out_size),
     oVec |-> ZeroVec(out_size), ctVec |-> ZeroVec(out_size),
     cVec |-> ZeroVec(out_size),
     inVec |-> ZeroVec(out_size),
     ht1 |-> ZeroVec(out_size), ct1 |-> ZeroVec(out_size)]

\* LSTMLayer(std::initializer_list<size_t> sizes)
LSTMLayerList(sizes) == LSTMLayer(sizes[1], sizes[2])

\* A copy constructor that copies every member of other.
LSTMLayerCopy_memberwise(other) == other

\* LSTMLayer(const LSTMLayer& other)
LSTMLayerCopy(other) == LSTMLayer(other.in_size, other.out_size)

\* LSTMLayer::reset clearing the hidden vector only.
LSTM_reset_hidden_only(l) ==
    [l EXCEPT !.ht1 = [k \in DOMAIN @ |-> IF k < l.out_size THEN 0 ELSE @[k]]]

\* LSTMLayer::reset(): std::fill over the first out_size entries of ht1 and ct1.
LSTM_reset(l) ==
    [l EXCEPT !.ht1 = [k \in DOMAIN @ |-> IF k < l.out_size THEN 0 ELSE @[k]],
              !.ct1 = [k \in DOMAIN @ |-> IF k < l.out_size THEN 0 ELSE @[k]]]

\* The coefficients (k, i) the setter loops assign: i < rows of the buffer
\* walked, k < out_size; every other coefficient keeps its value.
Slice(M, vals, nI, nK, offset) ==
    [k \in DOMAIN M |-> [i \in DOMAIN M[k] |->
        IF i < nI /\ k < nK THEN vals[i][k + offset] ELSE M[k][i]]]

SliceVec(v, vals, nK, offset) ==
    [k \in DOMAIN v |-> IF k < nK THEN vals[k + offset] ELSE v[k]]

\* LSTMLayer::setWVals reading the buffer in the order forget, input, cell,
\* output.
LSTM_setWVals_fico(l, wVals) ==
    [l EXCEPT !.Wf = Slice(@, wVals, l.in_size, l.out_size, 0),
              !.Wi = Slice(@, wVals, l.in_size, l.out_size, l.out_size),
              !.Wc = Slice(@, wVals, l.in_size, l.out_size, l.out_size * 2),
              !.Wo = Slice(@, wVals, l.in_size, l.out_size, l.out_size * 3)]

\* LSTMLayer::setWVals(wVals)
LSTM_setWVals(l, wVals) ==
    [l EXCEPT !.Wi = Slice(@, wVals, l.in_size, l.out_size, 0),
              !.Wf = Slice(@, wVals, l.in_size, l.out_size, l.out_size),
              !.Wc = Slice(@, wVals, l.in_size, l.out_size, l.out_size * 2),
              !.Wo = Slice(@, wVals, l.in_size, l.out_size, l.out_size * 3)]

\* LSTMLayer::setUVals(uVals)
LSTM_setUVals(l, uVals) ==
    [l EXCEPT !.Ui = Slice(@, uVals, l.out_size, l.out_size, 0),
              !.Uf = Slice(@, uVals, l.out_size, l.out_size, l.out_size),
              !.Uc = Slice(@, uVals, l.out_size, l.out_size, l.out_size * 2),
              !.Uo = Slice(@, uVals, l.out_size, l.out_size, l.out_size * 3)]

\* LSTMLayer::setBVals(bVals)
LSTM_setBVals(l, bVals) ==
    [l EXCEPT !.bi = SliceVec(@, bVals, l.out_size, 0),
              !.bf = SliceVec(@, bVals, l.out_size, l.out_size),
              !.bc = SliceVec(@, bVals, l.out_size, l.out_size * 2),
              !.bo = SliceVec(@, bVals, l.out_size, l.out_size * 3)]

\* LSTMLayer::forward(input, h): one step of the recurrence of the LSTM
\* layer; the new ht1 is what is copied to h.
LSTM_forward(l, x) ==
    LET n   == l.in_size
        m   == l.out_size
        K   == 0..m-1
        Wx(W, U, b) == [k \in K |->
                          MatVec(W, x, n)[k] + MatVec(U, l.ht1, m)[k] + b[k]]
        f   == [k \in K |-> sigmoid(Wx(l.Wf, l.Uf, l.bf)[k])]
        i   == [k \in K |-> sigmoid(Wx(l.Wi, l.Ui, l.bi)[k])]
        o   == [k \in K |-> sigmoid(Wx(l.Wo, l.Uo, l.bo)[k])]
        ct  == [k \in K |-> tanh(Wx(l.Wc, l.Uc, l.bc)[k])]
        c   == [k \in K |-> f[k] * l.ct1[k] + i[k] * ct[k]]
        h   == [k \in K |-> o[k] * tanh(c[k])]
    IN  [l EXCEPT !.inVec = [j \in 0..n-1 |-> x[j]],
                  !.fVec = f, !.iVec = i, !.oVec = o, !.ctVec = ct,
                  !.cVec = c, !.ht1 = h, !.ct1 = c]

-----------------------------------------------------------------------------
(* GRULayer (lstm_eigen.tpp, second half).                                 *)

\* GRULayer(in_size, out_size)
GRULayer(in_size, out_size) ==
    [kind |-> "GRU", in_size |-> in_size, out_size |-> out_size,
     wVec_z |-> Zero(out_size, in_size),  wVec_r |-> Zero(out_size, in_size),
     wVec_c |-> Zero(out_size, in_size),
     uVec_z |-> Zero(out_size, out_size), uVec_r |-> Zero(out_size, out_size),
     uVec_c |-> Zero(out_size, out_size),
     bVec_z |-> Zero(out_size, 2), bVec_r |-> Zero(out_size, 2),
     bVec_c |-> Zero(out_size, 2),
     ht1 |-> ZeroVec(out_size), zVec |-> ZeroVec(out_size),
     rVec |-> ZeroVec(out_size), cVec |-> ZeroVec(out_size),
     inVec |-> ZeroVec(in_size), ones |-> OnesVec(out_size)]

\* GRULayer(std::initializer_list<size_t> sizes)
GRULayerList(sizes) == GRULayer(sizes[1], sizes[2])

\* GRULayer(const GRULayer& other)
GRULayerCopy(other) == GRULayer(other.in_size, other.out_size)

\* GRULayer::setWVals(const std::vector<std::vector<T>>&)
GRU_setWVals(l, wVals) ==
    [l EXCEPT !.wVec_z = Slice(@, wVals, l.in_size, l.out_size, 0),
              !.wVec_r = Slice(@, wVals, l.in_size, l.out_size, l.out_size),
              !.wVec_c = Slice(@, wVals, l.in_size, l.out_size, l.out_size * 2)]

\* GRULayer::setWVals(T**)
GRU_setWVals_ptr(l, wVals) ==
    [l EXCEPT !.wVec_z = Slice(@, wVals, l.in_size, l.out_size, 0),
              !.wVec_r = Slice(@, wVals, l.in_size, l.out_size, l.out_size),
              !.wVec_c = Slice(@, wVals, l.in_size, l.out_size, l.out_size * 2)]

\* GRULayer::setUVals(const std::vector<std::vector<T>>&)
GRU_setUVals(l, uVals) ==
    [l EXCEPT !.uVec_z = Slice(@, uVals, l.out_size, l.out_size, 0),
              !.uVec_r = Slice(@, uVals, l.out_size, l.out_size, l.out_size),
              !.uVec_c = Slice(@, uVals, l.out_size, l.out_size, l.out_size * 2)]

\* GRULayer::setUVals(T**) storing uVals[i][k] at (i, k), not transposed.
GRU_setUVals_ptr_untransposed(l, uVals) ==
    [l EXCEPT !.uVec_z = [i \in DOMAIN @ |-> [k \in DOMAIN @[i] |-> uVals[i][k]]],
              !.uVec_r = [i \in DOMAIN @ |-> [k \in DOMAIN @[i] |-> uVals[i][k + l.out_size]]],
              !.uVec_c = [i \in DOMAIN @ |-> [k \in DOMAIN @[i] |-> uVals[i][k + l.out_size * 2]]]]

\* GRULayer::setUVals(T**)
GRU_setUVals_ptr(l, uVals) ==
    [l EXCEPT !.uVec_z = Slice(@, uVals, l.out_size, l.out_size, 0),
              !.uVec_r = Slice(@, uVals, l.out_size, l.out_size, l.out_size),
              !.uVec_c = Slice(@, uVals, l.out_size, l.out_size, l.out_size * 2)]

\* GRULayer::setBVals(const std::vector<std::vector<T>>&): the two bias rows.
GRU_setBVals(l, bVals) ==
    [l EXCEPT !.bVec_z = Slice(@, bVals, 2, l.out_size, 0),
              !.bVec_r = Slice(@, bVals, 2, l.out_size, l.out_size),
              !.bVec_c = Slice(@, bVals, 2, l.out_size, l.out_size * 2)]

\* GRULayer::setBVals(T**)
GRU_setBVals_ptr(l, bVals) ==
    [l EXCEPT !.bVec_z = Slice(@, bVals, 2, l.out_size, 0),
              !.bVec_r = Slice(@, bVals, 2, l.out_size, l.out_size),
              !.bVec_c = Slice(@, bVals, 2, l.out_size, l.out_size * 2)]

\* The gate matrix a getter selects for packed column k.
GateOf(l, k, z, r, c) ==
    IF k > 2 * l.out_size THEN c
    ELSE IF k > l.out_size THEN r
    ELSE z

\* GRULayer::getWVal(i, k)
GRU_getWVal(l, i, k) ==
    GateOf(l, k, l.wVec_z, l.wVec_r, l.wVec_c)[k % l.out_size][i]

\* GRULayer::getUVal(i, k)
GRU_getUVal(l, i, k) ==
    GateOf(l, k, l.uVec_z, l.uVec_r, l.uVec_c)[k % l.out_size][i]

\* GRULayer::getBVal(i, k)
GRU_getBVal(l, i, k) ==
    GateOf(l, k, l.bVec_z, l.bVec_r, l.bVec_c)[k % l.out_size][i]

-----------------------------------------------------------------------------
(* The state after construction.                                           *)

\* The caller's weight rows of a Dense layer live behind pointers.
CallerRows(in_size, out_size) ==
    [a \in {<<"newWeights", i>> : i \in 0..out_size-1} |->
        [k \in 0..in_size-1 |-> Cell(Fixture(0, out_size, in_size)[a[2]][k])]]

CallerData(kind, in_size, out_size) ==
    CASE kind = "Dense" ->
            [w |-> [i \in 0..out_size-1 |-> <<"newWeights", i>>],
             u |-> << >>,
             b |-> FixtureVec(1, out_size)]
      [] kind = "LSTM" ->
            [w |-> Fixture(0, in_size, 4 * out_size),
             u |-> Fixture(1, out_size, 4 * out_size),
             b |-> FixtureVec(0, 4 * out_size)]
      [] kind = "GRU" ->
            [w |-> Fixture(0, in_size, 3 * out_size),
             u |-> Fixture(1, out_size, 3 * out_size),
             b |-> Fixture(0, 2, 3 * out_size)]

Kinds == {"Dense", "LSTM", "GRU"}

NoGet == [op |-> "none", i |-> 0, k |-> 0, val |-> 0]

Init ==
    \E kind \in Kinds, in_size \in Sizes, out_size \in Sizes :
        /\ \/ /\ kind = "Dense"
              /\ layer \in {Dense("layer", in_size, out_size),
                            DenseList("layer", <<in_size, out_size>>)}
              /\ heap = DenseAlloc("layer", in_size, out_size)
                           @@ CallerRows(in_size, out_size)
           \/ /\ kind = "LSTM"
              /\ layer \in {LSTMLayer(in_size, out_size),
                            LSTMLayerList(<<in_size, out_size>>)}
              /\ heap = << >>
           \/ /\ kind = "GRU"
              /\ layer \in {GRULayer(in_size, out_size),
                            GRULayerList(<<in_size, out_size>>)}
              /\ heap = << >>
        /\ caller = CallerData(kind, in_size, out_size)
        /\ copy = << >>
        /\ out = ZeroVec(out_size)
        /\ input = ZeroVec(in_size)
        /\ ref = << >>
        /\ refOut = ZeroVec(out_size)
        /\ got = NoGet
        /\ lastOp = "construct"
        /\ nForward = 0
        /\ calls = << >>
        /\ crashed = FALSE

------------------------------------------------------------------------\* No operator= call is in progress: the caller is free to make a call.
Idle == calls = << >>

-----
(* Dense operations.                                                       *)

\* The values behind the caller's row pointers.
RowValues(h, rows) == [i \in DOMAIN rows |-> [k \in DOMAIN h[rows[i]] |-> h[rows[i]][k].val]]

DenseForward ==
    /\ Idle
    /\ layer.kind = "Dense"
    /\ nForward < MaxForward
    /\ \E x \in Inputs(layer.in_size) :
        /\ input' = x
        /\ out' \in Dense_forward(layer, heap, x)
    /\ refOut' = out'
    /\ nForward' = nForward + 1
    /\ lastOp' = "forward"
    /\ UNCHANGED <<layer, heap, caller, copy, ref, got, calls, crashed>>

DenseSetWeights ==
    /\ Idle
    /\ layer.kind = "Dense"
    /\ LET r == Dense_setWeights(layer, heap, caller.w)
       IN  /\ layer' = r.layer
           /\ heap' = r.heap
    /\ lastOp' = "setWeights"
    /\ UNCHANGED <<caller, copy, out, input, ref, refOut, got, nForward, calls, crashed>>

DenseSetWeightsPtr ==
    /\ Idle
    /\ layer.kind = "Dense"
    /\ LET r == Dense_setWeights_ptr(layer, heap, caller.w)
       IN  /\ layer' = r.layer
           /\ heap' = r.heap
    /\ lastOp' = "setWeights"
    /\ UNCHANGED <<caller, copy, out, input, ref, refOut, got, nForward, calls, crashed>>

DenseSetBias ==
    /\ Idle
    /\ layer.kind = "Dense"
    /\ layer' = Dense_setBias(layer, caller.b)
    /\ lastOp' = "setBias"
    /\ UNCHANGED <<heap, caller, copy, out, input, ref, refOut, got, nForward, calls, crashed>>

-----------------------------------------------------------------------------
(* LSTM operations.                                                        *)

\* A freshly constructed LSTM layer of the shape of l that holds the
\* weights and biases of l.
FreshLoaded(l) ==
    [LSTMLayer(l.in_size, l.out_size) EXCEPT
        !.Wf = l.Wf, !.Wi = l.Wi, !.Wo = l.Wo, !.Wc = l.Wc,
        !.Uf = l.Uf, !.Ui = l.Ui, !.Uo = l.Uo, !.Uc = l.Uc,
        !.bf = l.bf, !.bi = l.bi, !.bo = l.bo, !.bc = l.bc]

\* Apply the call f to the reference layer, when there is one.
OnRef(f(_)) == IF ref = << >> THEN << >> ELSE <<f(ref[1])>>

LSTMForward ==
    /\ Idle
    /\ layer.kind = "LSTM"
    /\ nForward < MaxForward
    /\ \E x \in Inputs(layer.in_size) :
        LET fwd(l) == LSTM_forward(l, x)
        IN  /\ input' = x
            /\ layer' = fwd(layer)
            /\ out' = layer'.ht1
            /\ ref' = OnRef(fwd)
            /\ refOut' = IF ref' = << >> THEN out' ELSE ref'[1].ht1
    /\ nForward' = nForward + 1
    /\ lastOp' = "forward"
    /\ UNCHANGED <<heap, caller, copy, got, calls, crashed>>

LSTMReset ==
    /\ Idle
    /\ layer.kind = "LSTM"
    /\ layer' = LSTM_reset(layer)
    /\ ref' = <<FreshLoaded(layer)>>
    /\ refOut' = out
    /\ lastOp' = "reset"
    /\ UNCHANGED <<heap, caller, copy, out, input, got, nForward, calls, crashed>>

LSTMSetWVals ==
    /\ Idle
    /\ layer.kind = "LSTM"
    /\ LET set(l) == LSTM_setWVals(l, caller.w)
       IN  /\ layer' = set(layer)
           /\ ref' = OnRef(set)
    /\ lastOp' = "setWVals"
    /\ UNCHANGED <<heap, caller, copy, out, input, refOut, got, nForward, calls, crashed>>

LSTMSetUVals ==
    /\ Idle
    /\ layer.kind = "LSTM"
    /\ LET set(l) == LSTM_setUVals(l, caller.u)
       IN  /\ layer' = set(layer)
           /\ ref' = OnRef(set)
    /\ lastOp' = "setUVals"
    /\ UNCHANGED <<heap, caller, copy, out, input, refOut, got, nForward, calls, crashed>>

LSTMSetBVals ==
    /\ Idle
    /\ layer.kind = "LSTM"
    /\ LET set(l) == LSTM_setBVals(l, caller.b)
       IN  /\ layer' = set(layer)
           /\ ref' = OnRef(set)
    /\ lastOp' = "setBVals"
    /\ UNCHANGED <<heap, caller, copy, out, input, refOut, got, nForward, calls, crashed>>

-----------------------------------------------------------------------------
(* GRU operations.                                                         *)

GRUSetWVals ==
    /\ Idle
    /\ layer.kind = "GRU"
    /\ layer' = GRU_setWVals(layer, caller.w)
    /\ lastOp' = "setWVals"
    /\ UNCHANGED <<heap, caller, copy, out, input, ref, refOut, got, nForward, calls, crashed>>

GRUSetWValsPtr ==
    /\ Idle
    /\ layer.kind = "GRU"
    /\ layer' = GRU_setWVals_ptr(layer, caller.w)
    /\ lastOp' = "setWVals"
    /\ UNCHANGED <<heap, caller, copy, out, input, ref, refOut, got, nForward, calls, crashed>>

GRUSetUVals ==
    /\ Idle
    /\ layer.kind = "GRU"
    /\ layer' = GRU_setUVals(layer, caller.u)
    /\ lastOp' = "setUVals"
    /\ UNCHANGED <<heap, caller, copy, out, input, ref, refOut, got, nForward, calls, crashed>>

GRUSetUValsPtr ==
    /\ Idle
    /\ layer.kind = "GRU"
    /\ layer' = GRU_setUVals_ptr(layer, caller.u)
    /\ lastOp' = "setUVals"
    /\ UNCHANGED <<heap, caller, copy, out, input, ref, refOut, got, nForward, calls, crashed>>

GRUSetBVals ==
    /\ Idle
    /\ layer.kind = "GRU"
    /\ layer' = GRU_setBVals(layer, caller.b)
    /\ lastOp' = "setBVals"
    /\ UNCHANGED <<heap, caller, copy, out, input, ref, refOut, got, nForward, calls, crashed>>

GRUSetBValsPtr ==
    /\ Idle
    /\ layer.kind = "GRU"
    /\ layer' = GRU_setBVals_ptr(layer, caller.b)
    /\ lastOp' = "setBVals"
    /\ UNCHANGED <<heap, caller, copy, out, input, ref, refOut, got, nForward, calls, crashed>>

\* The packed columns of a GRU buffer.
Packed(l) == 0..(3 * l.out_size - 1)

GRUGetWVal ==
    /\ Idle
    /\ layer.kind = "GRU"
    /\ \E i \in 0..layer.in_size-1, k \in Packed(layer) :
        got' = [op |-> "getWVal", i |-> i, k |-> k, val |-> GRU_getWVal(layer, i, k)]
    /\ lastOp' = "getWVal"
    /\ UNCHANGED <<layer, heap, caller, copy, out, input, ref, refOut, nForward, calls, crashed>>

GRUGetUVal ==
    /\ Idle
    /\ layer.kind = "GRU"
    /\ \E i \in 0..layer.out_size-1, k \in Packed(layer) :
        got' = [op |-> "getUVal", i |-> i, k |-> k, val |-> GRU_getUVal(layer, i, k)]
    /\ lastOp' = "getUVal"
    /\ UNCHANGED <<layer, heap, caller, copy, out, input, ref, refOut, nForward, calls, crashed>>

GRUGetBVal ==
    /\ Idle
    /\ layer.kind = "GRU"
    /\ \E i \in 0..1, k \in Packed(layer) :
        got' = [op |-> "getBVal", i |-> i, k |-> k, val |-> GRU_getBVal(layer, i, k)]
    /\ lastOp' = "getBVal"
    /\ UNCHANGED <<layer, heap, caller, copy, out, input, ref, refOut, nForward, calls, crashed>>

-----------------------------------------------------------------------------
(* Copy construction.                                                      *)

DenseCopyConstruct ==
    /\ Idle
    /\ layer.kind = "Dense"
    /\ copy' = <<DenseCopy("copy", layer)>>
    /\ heap' = DenseAlloc("copy", copy'[1].in_size, copy'[1].out_size) @@ heap
    /\ lastOp' = "copy"
    /\ UNCHANGED <<layer, caller, out, input, ref, refOut, got, nForward, calls, crashed>>

LSTMCopyConstruct ==
    /\ Idle
    /\ layer.kind = "LSTM"
    /\ copy' = <<LSTMLayerCopy(layer)>>
    /\ lastOp' = "copy"
    /\ UNCHANGED <<layer, heap, caller, out, input, ref, refOut, got, nForward, calls, crashed>>

GRUCopyConstruct ==
    /\ Idle
    /\ layer.kind = "GRU"
    /\ copy' = <<GRULayerCopy(layer)>>
    /\ lastOp' = "copy"
    /\ UNCHANGED <<layer, heap, caller, out, input, ref, refOut, got, nForward, calls, crashed>>

-----------------------------------------------------------------------------
(* The caller writes to its own buffers after configuration: it reuses     *)
(* them, overwriting every element.                                        *)

Fill(M, v) == [i \in DOMAIN M |-> [k \in DOMAIN M[i] |-> v]]
FillVec(b, v) == [k \in DOMAIN b |-> v]

Range(f) == {f[i] : i \in DOMAIN f}

DenseCallerWrite ==
    /\ Idle
    /\ layer.kind = "Dense"
    /\ \E v \in PokeVals :
        /\ heap' = [a \in DOMAIN heap |->
                      IF a \in Range(caller.w)
                      THEN [k \in DOMAIN heap[a] |-> Cell(v)] ELSE heap[a]]
        /\ caller' = [caller EXCEPT !.b = FillVec(@, v)]
    /\ lastOp' = "callerWrite"
    /\ UNCHANGED <<layer, copy, out, input, ref, refOut, got, nForward, calls, crashed>>

LSTMCallerWrite ==
    /\ Idle
    /\ layer.kind = "LSTM"
    /\ \E v \in PokeVals :
        caller' = [w |-> Fill(caller.w, v), u |-> Fill(caller.u, v),
                   b |-> FillVec(caller.b, v)]
    /\ lastOp' = "callerWrite"
    /\ UNCHANGED <<layer, heap, copy, out, input, ref, refOut, got, nForward, calls, crashed>>

GRUCallerWrite ==
    /\ Idle
    /\ layer.kind = "GRU"
    /\ \E v \in PokeVals :
        caller' = [w |-> Fill(caller.w, v), u |-> Fill(caller.u, v),
                   b |-> Fill(caller.b, v)]
    /\ lastOp' = "callerWrite"
    /\ UNCHANGED <<layer, heap, copy, out, input, ref, refOut, got, nForward, calls, crashed>>

-----------------------------------------------------------------------------------------------------------------------------------------------------
(* Copy assignment.  Each of the three classes defines                     *)
(*     X& operator=(const X& other) { return *this = X(other); }           *)
(* and declares no other assignment operator, so the assignment in the     *)
(* return statement is a call of the same operator=, with the temporary    *)
(* X(other) as its argument.  The temporary lives until that call returns. *)

\* A layer of the given kind, as its (in_size, out_size) constructor leaves it.
Construct(kind, owner, in_size, out_size) ==
    CASE kind = "Dense" -> Dense(owner, in_size, out_size)
      [] kind = "LSTM"  -> LSTMLayer(in_size, out_size)
      [] kind = "GRU"   -> GRULayer(in_size, out_size)

\* The arrays that constructor allocates behind raw pointers.
ConstructAlloc(kind, owner, in_size, out_size) ==
    IF kind = "Dense" THEN DenseAlloc(owner, in_size, out_size) ELSE << >>

\* The frame of a call operator=(other) that has just been entered.
Frame(other) == [other |-> other, temp |-> << >>]

\* The temporary X(other) the return statement constructs.
Temporary(owner, other) ==
    CASE other.kind = "Dense" -> DenseCopy(owner, other)
      [] other.kind = "LSTM"  -> LSTMLayerCopy(other)
      [] other.kind = "GRU"   -> GRULayerCopy(other)

\* The name of the temporary of the call at depth n.
TempOwner(n) == "temp" \o ToString(n)

\* The innermost call evaluates `*this = X(other)`: it constructs the
\* temporary and, when `nested` is TRUE, enters operator= with it.
operator_assign(cs, nested) ==
    LET n    == Len(cs)
        temp == Temporary(TempOwner(n), cs[n].other)
        held == [cs EXCEPT ![n].temp = <<temp>>]
    IN  IF nested THEN Append(held, Frame(temp)) ELSE held

\* The arrays the temporary of the innermost call allocates.
operator_assign_alloc(cs) ==
    LET other == cs[Len(cs)].other
    IN  ConstructAlloc(other.kind, TempOwner(Len(cs)), other.in_size, other.out_size)

\* The caller constructs a layer b of the kind of the layer and executes
\* `layer = b`.  operator= reads nothing of *this and only the sizes of
\* other; the assignment is made to the layer as constructed.
CallAssign ==
    /\ Idle
    /\ lastOp = "construct"
    /\ \E in_size \in Sizes, out_size \in Sizes :
        /\ calls' = <<Frame(Construct(layer.kind, "other", in_size, out_size))>>
        /\ heap' = ConstructAlloc(layer.kind, "other", in_size, out_size) @@ heap
    /\ lastOp' = "operator="
    /\ UNCHANGED <<layer, caller, copy, out, input, ref, refOut, got, nForward, crashed>>

\* The body of the innermost operator= call, while the stack has room for
\* the frame of the call it makes.
AssignBody ==
    /\ calls # << >>
    /\ ~crashed
    /\ Len(calls) < MaxFrames
    /\ calls' = operator_assign(calls, TRUE)
    /\ heap' = operator_assign_alloc(calls) @@ heap
    /\ UNCHANGED <<layer, caller, copy, out, input, ref, refOut, got, lastOp, nForward, crashed>>

\* The innermost call makes its call with no room left on the stack: the
\* program ends there.
StackOverflow ==
    /\ calls # << >>
    /\ ~crashed
    /\ Len(calls) = MaxFrames
    /\ calls' = operator_assign(calls, FALSE)
    /\ heap' = operator_assign_alloc(calls) @@ heap
    /\ crashed' = TRUE
    /\ UNCHANGED <<layer, caller, copy, out, input, ref, refOut, got, lastOp, nForward>>

-----

Next ==
    \/ DenseForward \/ DenseSetWeights \/ DenseSetWeightsPtr \/ DenseSetBias
    \/ LSTMForward \/ LSTMReset \/ LSTMSetWVals \/ LSTMSetUVals \/ LSTMSetBVals
    \/ GRUSetWVals \/ GRUSetWValsPtr \/ GRUSetUVals \/ GRUSetUValsPtr
    \/ GRUSetBVals \/ GRUSetBValsPtr
    \/ GRUGetWVal \/ GRUGetUVal \/ GRUGetBVal
    \/ DenseCopyConstruct \/ LSTMCopyConstruct \/ GRUCopyConstruct
    \/ DenseCallerWrite \/ LSTMCallerWrite \/ GRUCallerWrite
    \/ CallAssign \/ AssignBody \/ StackOverflow

Spec == Init /\ [][Next]_vars

\* The thread inside operator= keeps executing.
LiveSpec == Spec /\ WF_vars(AssignBody \/ StackOverflow)

-----------------------------------------------------------------------------
(* Properties.                                                             *)

\* Sum of w[k] * x[k] over k in [from, n).
RECURSIVE DotSum(_, _, _, _)
DotSum(w, x, from, n) ==
    IF from >= n THEN 0 ELSE w[from] * x[from] + DotSum(w, x, from + 1, n)

Rows(l) == 0..l.out_size-1
Cols(l) == 0..l.in_size-1

\* Every weight and bias Dense::forward reads has been written.
DenseConfigured(l, h) ==
    \A i \in Rows(l) :
        /\ Dense_getBias(l, i).init
        /\ \A k \in Cols(l) : Dense_getWeight(l, h, i, k).init

\* The weights and biases of a Dense layer, as plain cells.
DenseParams(l, h) ==
    [i \in Rows(l) |->
        [w |-> [k \in Cols(l) |-> Dense_getWeight(l, h, i, k)], b |-> Dense_getBias(l, i)]]

\* C1: Dense forward.  setWeights(w) stores w[i][k] as weight (i, k) and
\* leaves the biases alone; setBias(b) stores b[i] as bias i and leaves the
\* weights alone; and on a layer so configured forward(x, out) writes
\* out[i] = (sum over k < in_size of weight(i, k) * x[k]) + bias(i) for every
\* i < out_size, with no activation, and changes no weight and no bias.
DenseForwardIsAffine ==
    [][layer.kind = "Dense" =>
        /\ (lastOp' = "setWeights" =>
              /\ \A i \in Rows(layer) : \A k \in Cols(layer) :
                    Dense_getWeight(layer', heap', i, k) = Cell(heap[caller.w[i]][k].val)
              /\ \A i \in Rows(layer) : Dense_getBias(layer', i) = Dense_getBias(layer, i))
        /\ (lastOp' = "setBias" =>
              /\ \A i \in Rows(layer) : Dense_getBias(layer', i) = Cell(caller.b[i])
              /\ \A i \in Rows(layer) : \A k \in Cols(layer) :
                    Dense_getWeight(layer', heap', i, k) = Dense_getWeight(layer, heap, i, k))
        /\ (nForward' # nForward =>
              /\ DenseParams(layer', heap') = DenseParams(layer, heap)
              /\ DenseConfigured(layer, heap) =>
                    \A i \in Rows(layer) :
                        out'[i] = DotSum([k \in Cols(layer) |-> Dense_getWeight(layer, heap, i, k).val],
                                         input', 0, layer.in_size)
                                  + Dense_getBias(layer, i).val)
    ]_vars

\* A configured 2x2 Dense layer has run forward on an input and produced
\* two different non-zero outputs from the fixture weights.
DenseForwardWitness ==
    /\ layer.kind = "Dense" /\ layer.in_size = 2 /\ layer.out_size = 2
    /\ lastOp = "forward"
    /\ DenseConfigured(layer, heap)
    /\ Dense_getWeight(layer, heap, 1, 0).val = 3
    /\ Dense_getBias(layer, 1).val = 2
    /\ out[0] # out[1] /\ out[0] # 0 /\ out[1] # 0


\* Gate matrix G (out_size x n) holds the slice of the packed buffer vals
\* at the given column offset, transposed: G(k, i) = vals[i][k + offset].
HoldsSlice(G, vals, n, out_size, offset) ==
    \A k \in 0..out_size-1 : \A i \in 0..n-1 : G[k][i] = vals[i][k + offset]

HoldsSliceVec(g, vals, out_size, offset) ==
    \A k \in 0..out_size-1 : g[k] = vals[k + offset]

LSTMW(l) == <<l.Wi, l.Wf, l.Wc, l.Wo>>
LSTMU(l) == <<l.Ui, l.Uf, l.Uc, l.Uo>>
LSTMB(l) == <<l.bi, l.bf, l.bc, l.bo>>

\* C2: LSTM weight loading.  setWVals(w) leaves Wi, Wf, Wc, Wo holding the
\* slices of w at offsets 0, out_size, 2*out_size, 3*out_size, transposed;
\* setUVals(u) does the same for Ui, Uf, Uc, Uo; setBVals(b) leaves bi, bf,
\* bc, bo holding the slices of b at these offsets; and each setter leaves
\* the matrices and vectors of the other two as they were.
LSTMLoadsGateSlices ==
    [][layer.kind = "LSTM" =>
        LET m == layer.out_size
            n == layer.in_size
        IN  /\ (lastOp' = "setWVals" =>
                  /\ HoldsSlice(layer'.Wi, caller.w, n, m, 0)
                  /\ HoldsSlice(layer'.Wf, caller.w, n, m, m)
                  /\ HoldsSlice(layer'.Wc, caller.w, n, m, 2 * m)
                  /\ HoldsSlice(layer'.Wo, caller.w, n, m, 3 * m)
                  /\ LSTMU(layer') = LSTMU(layer) /\ LSTMB(layer') = LSTMB(layer))
            /\ (lastOp' = "setUVals" =>
                  /\ HoldsSlice(layer'.Ui, caller.u, m, m, 0)
                  /\ HoldsSlice(layer'.Uf, caller.u, m, m, m)
                  /\ HoldsSlice(layer'.Uc, caller.u, m, m, 2 * m)
                  /\ HoldsSlice(layer'.Uo, caller.u, m, m, 3 * m)
                  /\ LSTMW(layer') = LSTMW(layer) /\ LSTMB(layer') = LSTMB(layer))
            /\ (lastOp' = "setBVals" =>
                  /\ HoldsSliceVec(layer'.bi, caller.b, m, 0)
                  /\ HoldsSliceVec(layer'.bf, caller.b, m, m)
                  /\ HoldsSliceVec(layer'.bc, caller.b, m, 2 * m)
                  /\ HoldsSliceVec(layer'.bo, caller.b, m, 3 * m)
                  /\ LSTMW(layer') = LSTMW(layer) /\ LSTMU(layer') = LSTMU(layer))
    ]_vars

\* A 2-input, 2-output LSTM layer right after its third setter call: all
\* of W, U and b hold the fixture's slices (the entries named are the
\* fixture's values at the last column of each buffer's first row).
LSTMLoadWitness ==
    /\ layer.kind = "LSTM" /\ layer.in_size = 2 /\ layer.out_size = 2
    /\ lastOp = "setBVals"
    /\ layer.Wo[1][0] = -8 /\ layer.Wi[0][1] = 9
    /\ layer.Uo[1][0] = 8 /\ layer.Uf[0][1] = -11
    /\ layer.bo[1] = -8 /\ layer.bi[0] = 1

GRUW(l) == <<l.wVec_z, l.wVec_r, l.wVec_c>>
GRUU(l) == <<l.uVec_z, l.uVec_r, l.uVec_c>>
GRUB(l) == <<l.bVec_z, l.bVec_r, l.bVec_c>>

\* C3: GRU weight loading.  setWVals(w), by either overload, leaves wVec_z,
\* wVec_r, wVec_c holding the slices of w at offsets 0, out_size,
\* 2*out_size, transposed; setUVals(u) does the same for uVec_*; setBVals(b)
\* does the same for bVec_* over the two bias rows; and each setter leaves
\* the matrices of the other two as they were.
GRULoadsGateSlices ==
    [][layer.kind = "GRU" =>
        LET m == layer.out_size
            n == layer.in_size
        IN  /\ (lastOp' = "setWVals" =>
                  /\ HoldsSlice(layer'.wVec_z, caller.w, n, m, 0)
                  /\ HoldsSlice(layer'.wVec_r, caller.w, n, m, m)
                  /\ HoldsSlice(layer'.wVec_c, caller.w, n, m, 2 * m)
                  /\ GRUU(layer') = GRUU(layer) /\ GRUB(layer') = GRUB(layer))
            /\ (lastOp' = "setUVals" =>
                  /\ HoldsSlice(layer'.uVec_z, caller.u, m, m, 0)
                  /\ HoldsSlice(layer'.uVec_r, caller.u, m, m, m)
                  /\ HoldsSlice(layer'.uVec_c, caller.u, m, m, 2 * m)
                  /\ GRUW(layer') = GRUW(layer) /\ GRUB(layer') = GRUB(layer))
            /\ (lastOp' = "setBVals" =>
                  /\ HoldsSlice(layer'.bVec_z, caller.b, 2, m, 0)
                  /\ HoldsSlice(layer'.bVec_r, caller.b, 2, m, m)
                  /\ HoldsSlice(layer'.bVec_c, caller.b, 2, m, 2 * m)
                  /\ GRUW(layer') = GRUW(layer) /\ GRUU(layer') = GRUU(layer))
    ]_vars

\* A 1-input, 2-output GRU layer right after its third setter call: all of
\* W, U and both bias rows hold the fixture's slices.
GRULoadWitness ==
    /\ layer.kind = "GRU" /\ layer.in_size = 1 /\ layer.out_size = 2
    /\ lastOp = "setBVals"
    /\ layer.wVec_c[1][0] = -6 /\ layer.wVec_z[0][0] = 1
    /\ layer.uVec_c[1][1] = 12 /\ layer.uVec_r[0][1] = -9
    /\ layer.bVec_c[1][1] = -12 /\ layer.bVec_r[0][0] = 3


LSTMParams(l) == <<LSTMW(l), LSTMU(l), LSTMB(l)>>

\* C4: recurrent lifecycle of the LSTM layer.  From the latest reset() on,
\* the layer and a freshly constructed layer that was given the weights the
\* layer had when reset() was called, and that has received every call
\* made since, agree: same weights and biases, same hidden and cell vector,
\* same output of the latest forward call.  Right after reset() the hidden
\* and the cell vector are zero in all out_size entries.
LSTMResetRestoresFresh ==
    (layer.kind = "LSTM" /\ ref # << >>) =>
        /\ LSTMParams(layer) = LSTMParams(ref[1])
        /\ layer.ht1 = ref[1].ht1
        /\ layer.ct1 = ref[1].ct1
        /\ out = refOut
        /\ (lastOp = "reset" =>
              /\ layer.ht1 = [k \in 0..layer.out_size-1 |-> 0]
              /\ layer.ct1 = [k \in 0..layer.out_size-1 |-> 0])

\* reset() has just been called on a configured 2x2 LSTM layer in the
\* Running state: the scratch vectors still hold the non-zero cell vector
\* and output gate that the forward call before it computed, and the hidden
\* and cell vector are zero again.
LSTMResetWitness ==
    /\ layer.kind = "LSTM" /\ layer.in_size = 2 /\ layer.out_size = 2
    /\ lastOp = "reset"
    /\ nForward >= 1
    /\ layer.Wc[0][0] # 0 /\ layer.Uc[0][0] # 0 /\ layer.bc[0] # 0
    /\ \E k \in 0..1 : layer.cVec[k] # 0 /\ layer.oVec[k] # 0
    /\ \A k \in 0..1 : layer.ht1[k] = 0 /\ layer.ct1[k] = 0


\* C5: initialization before configuration.  Right after construction every
\* weight and every bias that forward reads holds a defined value: the
\* cells of a Dense layer are initialized, and the coefficients of an LSTM
\* or GRU layer (which are always numbers here) are zero.
InitializedBeforeConfiguration ==
    lastOp = "construct" =>
        CASE layer.kind = "Dense" -> DenseConfigured(layer, heap)
          [] layer.kind = "LSTM" ->
                LSTMParams(layer) = LSTMParams(LSTMLayer(layer.in_size, layer.out_size))
          [] layer.kind = "GRU" ->
                <<GRUW(layer), GRUU(layer), GRUB(layer)>> =
                    <<<<Zero(layer.out_size, layer.in_size), Zero(layer.out_size, layer.in_size),
                        Zero(layer.out_size, layer.in_size)>>,
                      <<Zero(layer.out_size, layer.out_size), Zero(layer.out_size, layer.out_size),
                        Zero(layer.out_size, layer.out_size)>>,
                      <<Zero(layer.out_size, 2), Zero(layer.out_size, 2), Zero(layer.out_size, 2)>>>>

\* The weights, biases and recurrent state of an LSTM or GRU layer are all
\* zero, whatever the scratch vectors hold.
IsFreshRecurrent(l) ==
    CASE l.kind = "LSTM" ->
            /\ LSTMParams(l) =
                 <<<<Zero(l.out_size, l.in_size), Zero(l.out_size, l.in_size),
                     Zero(l.out_size, l.in_size), Zero(l.out_size, l.in_size)>>,
                   <<Zero(l.out_size, l.out_size), Zero(l.out_size, l.out_size),
                     Zero(l.out_size, l.out_size), Zero(l.out_size, l.out_size)>>,
                   <<ZeroVec(l.out_size), ZeroVec(l.out_size),
                     ZeroVec(l.out_size), ZeroVec(l.out_size)>>>>
            /\ l.ht1 = ZeroVec(l.out_size) /\ l.ct1 = ZeroVec(l.out_size)
      [] l.kind = "GRU" ->
            /\ GRUW(l) = <<Zero(l.out_size, l.in_size), Zero(l.out_size, l.in_size),
                           Zero(l.out_size, l.in_size)>>
            /\ GRUU(l) = <<Zero(l.out_size, l.out_size), Zero(l.out_size, l.out_size),
                           Zero(l.out_size, l.out_size)>>
            /\ GRUB(l) = <<Zero(l.out_size, 2), Zero(l.out_size, 2), Zero(l.out_size, 2)>>
            /\ l.ht1 = ZeroVec(l.out_size)

\* A Dense layer as its constructor leaves it: every sub-layer has its own
\* array of in_size cells, shared with no sub-layer of src, and no weight
\* and no bias has been written.
IsFreshDense(l, h, src) ==
    \A i \in Rows(l) :
        /\ l.subLayers[i].in_size = l.in_size
        /\ \A j \in Rows(src) : l.subLayers[i].weights # src.subLayers[j].weights
        /\ \A j \in Rows(l) : j # i => l.subLayers[i].weights # l.subLayers[j].weights
        /\ DOMAIN h[l.subLayers[i].weights] = Cols(l)
        /\ ~Dense_getBias(l, i).init
        /\ \A k \in Cols(l) : ~Dense_getWeight(l, h, i, k).init

\* C6: shape-only copy.  Copy construction from the layer, in whatever
\* state the layer is, yields a layer of the same kind, in_size and
\* out_size whose buffers are those of a freshly constructed layer, and
\* leaves the source layer and every array it owns unchanged.
CopyIsShapeOnly ==
    [][lastOp' = "copy" =>
        /\ layer' = layer
        /\ \A a \in DOMAIN heap : a[1] # "copy" => (a \in DOMAIN heap' /\ heap'[a] = heap[a])
        /\ Len(copy') = 1
        /\ copy'[1].kind = layer.kind
        /\ copy'[1].in_size = layer.in_size
        /\ copy'[1].out_size = layer.out_size
        /\ IF layer.kind = "Dense"
           THEN IsFreshDense(copy'[1], heap', layer)
           ELSE IsFreshRecurrent(copy'[1])
    ]_vars

\* A configured 2x2 LSTM layer in the Running state (non-zero weights,
\* hidden and cell vector) has just been copy-constructed from.
CopyWitness ==
    /\ layer.kind = "LSTM" /\ layer.in_size = 2 /\ layer.out_size = 2
    /\ lastOp = "copy"
    /\ Len(copy) = 1
    /\ layer.Wi[0][0] # 0 /\ layer.Uf[1][1] # 0 /\ layer.bo[0] # 0
    /\ \E k \in 0..1 : layer.ht1[k] # 0 /\ layer.ct1[k] # 0

\* The caller's configuration values, read through its pointers.
CallerValues ==
    IF layer.kind = "Dense"
    THEN [w |-> RowValues(heap, caller.w), u |-> caller.u, b |-> caller.b]
    ELSE caller

\* The weights and biases the layer's forward reads.
StoredParams ==
    CASE layer.kind = "Dense" -> DenseParams(layer, heap)
      [] layer.kind = "LSTM" -> LSTMParams(layer)
      [] layer.kind = "GRU" -> <<GRUW(layer), GRUU(layer), GRUB(layer)>>

SetterOps == {"setWeights", "setBias", "setWVals", "setUVals", "setBVals"}

\* C7: no aliasing of configuration data.  A write of the caller to its
\* own buffers changes no weight and no bias the layer's forward reads, and
\* a setter call changes no value of the caller's buffers.
NoAliasing ==
    [][/\ (lastOp' = "callerWrite" => StoredParams' = StoredParams)
       /\ (lastOp' \in SetterOps => CallerValues' = CallerValues)
    ]_vars

\* The caller has just overwritten its buffers after configuring a 2x2
\* Dense layer from them: the layer holds the fixture's values, the
\* caller's rows hold other values.
NoAliasingWitness ==
    /\ layer.kind = "Dense" /\ layer.in_size = 2 /\ layer.out_size = 2
    /\ lastOp = "callerWrite"
    /\ DenseConfigured(layer, heap)
    /\ Dense_getWeight(layer, heap, 1, 1).val = -4
    /\ Dense_getBias(layer, 0).val = -1
    /\ heap[caller.w[1]][1].val = 0
    /\ caller.b[0] = 0

\* C8: shape invariant.  In every reachable state in_size and out_size of
\* the layer, and of its copy when there is one, are strictly positive.
ShapePositive ==
    /\ layer.in_size > 0 /\ layer.out_size > 0
    /\ \A n \in 1..Len(copy) : copy[n].in_size > 0 /\ copy[n].out_size > 0

\* No operation changes in_size or out_size of the layer, and a copy, once
\* constructed, has the sizes of the layer.
ShapeFixed ==
    [][/\ layer'.in_size = layer.in_size /\ layer'.out_size = layer.out_size
       /\ layer'.kind = layer.kind
       /\ \A n \in 1..Len(copy') :
            copy'[n].in_size = layer.in_size /\ copy'[n].out_size = layer.out_size
    ]_vars

\* The GRU weights are the slices of the caller's buffer w, as setWVals
\* leaves them.
GRUHoldsW ==
    /\ HoldsSlice(layer.wVec_z, caller.w, layer.in_size, layer.out_size, 0)
    /\ HoldsSlice(layer.wVec_r, caller.w, layer.in_size, layer.out_size, layer.out_size)
    /\ HoldsSlice(layer.wVec_c, caller.w, layer.in_size, layer.out_size, 2 * layer.out_size)

GRUHoldsU ==
    /\ HoldsSlice(layer.uVec_z, caller.u, layer.out_size, layer.out_size, 0)
    /\ HoldsSlice(layer.uVec_r, caller.u, layer.out_size, layer.out_size, layer.out_size)
    /\ HoldsSlice(layer.uVec_c, caller.u, layer.out_size, layer.out_size, 2 * layer.out_size)

GRUHoldsB ==
    /\ HoldsSlice(layer.bVec_z, caller.b, 2, layer.out_size, 0)
    /\ HoldsSlice(layer.bVec_r, caller.b, 2, layer.out_size, layer.out_size)
    /\ HoldsSlice(layer.bVec_c, caller.b, 2, layer.out_size, 2 * layer.out_size)

\* C10: GRU read/write round trip.  While the layer holds what setWVals(w)
\* stored, getWVal(i, k) returns w[i][k] for every row i and every packed
\* column k < 3*out_size; likewise getUVal and u, getBVal and b.
GRUGetterRoundTrip ==
    layer.kind = "GRU" =>
        /\ (lastOp = "getWVal" /\ GRUHoldsW => got.val = caller.w[got.i][got.k])
        /\ (lastOp = "getUVal" /\ GRUHoldsU => got.val = caller.u[got.i][got.k])
        /\ (lastOp = "getBVal" /\ GRUHoldsB => got.val = caller.b[got.i][got.k])

-----------------------------------------------------------------------------
\* The number of entries of a vector.
Size(v) == Cardinality(DOMAIN v)

\* The vectors a recurrent layer computes its gates, candidate, hidden and
\* cell values in.
GateVectors(l) ==
    IF l.kind = "LSTM"
    THEN {l.fVec, l.iVec, l.oVec, l.ctVec, l.cVec, l.ht1, l.ct1}
    ELSE {l.ht1, l.zVec, l.rVec, l.cVec, l.ones}

\* C11: in every state of an LSTM or GRU layer, construction included, the
\* gate, candidate, hidden and cell vectors have out_size entries and the
\* input staging vector inVec has in_size entries.
ScratchSized ==
    layer.kind \in {"LSTM", "GRU"} =>
        /\ \A v \in GateVectors(layer) : Size(v) = layer.out_size
        /\ Size(layer.inVec) = layer.in_size

\* The part of C11 that the constructors and the operations do keep: the
\* vectors sized by out_size have out_size entries in every state, and the
\* GRU layer's inVec has in_size entries.
GateVectorsSized ==
    layer.kind \in {"LSTM", "GRU"} =>
        /\ \A v \in GateVectors(layer) : Size(v) = layer.out_size
        /\ layer.kind = "GRU" => Size(layer.inVec) = layer.in_size

-----------------------------------------------------------------------------
\* C12: every assignment `layer = b` returns: once operator= has been
\* entered, a state follows in which no operator= call is in progress and
\* the program has not ended.
AssignmentReturns ==
    (calls # << >>) ~> (calls = << >> /\ ~crashed)

\* Why no call returns: a frame is only ever added, since the innermost call
\* always has its own call of operator= still to make.
CallsOnlyNest ==
    [][calls # << >> =>
        /\ Len(calls') >= Len(calls)
        /\ \A n \in 1..Len(calls) : calls'[n].other = calls[n].other]_vars


====
